---- MODULE Spec2Model ----
(***************************************************************************)
(* Model of the OCC returns client (src/OccReturns.py): the token cache    *)
(* file, the refresh endpoint, the retry-on-401 dispatch loop of           *)
(* _send_request and the three public operations get_returns,              *)
(* create_comment and delete_comment.                                      *)
(*                                                                         *)
(* The client is sequential and blocking.  Every HTTP exchange is one      *)
(* step of the model; pc is the position of the running public operation.  *)
(*                                                                         *)
(* The orchestrator (src/main.py) drives the client: Main.main,            *)
(* _search_incomplete_returns, _get_returns_data, _simplify_returns_list   *)
(* and the webhook POST; mainPc is its position.                           *)
(***************************************************************************)
EXTENDS Integers, Sequences, FiniteSets, TLC

\* ------------------------------------------------------------ bounds
\* Number of public operations a caller other than Main.main issues: two, so
\* that an operation runs on the token.json an earlier one left.
MaxOps == 2
\* Length of the returns list the upstream API answers with.
MaxReturns == 2
\* Number of comments in a detail record.
MaxComments == 2

\* ------------------------------------------------------------ constants
\* range(160, 196) of _load_token: sizes 160..195 are accepted.
TokenSizeMin == 160
TokenSizeMax == 196
\* status that triggers the refresh in _send_request.
Unauthorized == 401
\* raise_for_status raises for 400 <= status < 600.
ErrorMin == 400
ErrorMax == 600

\* Statuses the upstream endpoints answer with: success, a status that is
\* neither success nor an error for raise_for_status, 401, a server error.
Statuses == {200, 302, 401, 500}
\* Byte sizes of the token.json an earlier run left: both edges of
\* range(160, 196) and a neighbour of each.
Sizes == {159, 160, 195, 196}
\* Byte sizes of the dump of a token the refresh endpoint answers with: one
\* that _load_token accepts and one that it rejects.
DumpSizes == {TokenSizeMin, TokenSizeMax}

\* Token identities.  NoTok: no token.  OldTok: the token an earlier run left
\* in token.json.  1, 2, ...: tokens issued by the refresh endpoint in this run.
NoTok == -1
OldTok == 0

MissingFile == [exists |-> FALSE, size |-> 0, tok |-> NoTok]

Ops == {"get_returns", "create_comment", "delete_comment"}

\* ------------------------------------------------------------ data
\* A keyword argument that is None.
NoneVal == "<None>"
\* Values of the arguments of get_returns: None, a falsy value (0 or ""),
\* and a truthy one.
ArgValues == {NoneVal, "0", "v"}
ArgNames == {"date_from", "date_to", "page_size", "current_page", "fields",
             "sort", "content_type", "country", "channel"}
\* The call Main.main makes: date_from and date_to given, the rest defaults.
MainArgs == [date_from |-> "v", date_to |-> "v", page_size |-> "v",
             current_page |-> "0", fields |-> "v", sort |-> "v",
             content_type |-> "v", country |-> "v", channel |-> "v"]

\* statusDisplay labels: "Ожидает утверждения" (transliterated) and another.
PendingLabel == "Ozhidaet utverzhdeniya"
Labels == {PendingLabel, "Approved"}
\* comment["author"]["name"]
Sentinel == "Anonymous"
Authors == {Sentinel, "Bob"}

\* Sequences over S of length at most n.
SeqsUpTo(S, n) == UNION {[1..k -> S] : k \in 0..n}
\* Sequences without a repeated element.
Injective(q) == \A i, j \in 1..Len(q) : q[i] = q[j] => i = j

\* JSON bodies.  kind "none": no JSON; "returns": {"returns": [...]};
\* "detail": a return record with rma and cisComments.
NoJson == [kind |-> "none", returns |-> <<>>, rma |-> 0, comments |-> <<>>,
           entries |-> 0]
\* Returns lists: items with a unique code and a statusDisplay.
ReturnsLists ==
    {q \in SeqsUpTo([code : 1..MaxReturns, statusDisplay : Labels], MaxReturns) :
        Injective([i \in 1..Len(q) |-> q[i].code])}
ReturnsJson(q) == [kind |-> "returns", returns |-> q, rma |-> 0, comments |-> <<>>,
                   entries |-> 0]
\* Comment lists: the n-th comment has code n.
CommentLists ==
    {[i \in 1..Len(q) |-> [author |-> q[i], code |-> i]] :
        q \in SeqsUpTo(Authors, MaxComments)}
\* Number of items of "entries" in a detail record (0: the list is empty or
\* the key is absent).
EntryCounts == {0, 1}
DetailJson(rma, cs, n) == [kind |-> "detail", returns |-> <<>>, rma |-> rma,
                           comments |-> cs, entries |-> n]
\* The "rma" of a record that is not the record of any return of the list (the
\* key is absent, or the number is another one).
NoRma == 0
\* Arguments of the URL template; 0: the URL has no such argument.
NoUrlArgs == [ret |-> 0, com |-> 0]

VARIABLES
    cache,          \* token.json: [exists, size, tok]
    issued,         \* number of tokens the refresh endpoint has issued
    expired,        \* tokens the upstream API no longer accepts
    pc,             \* "idle", "send", "refresh", "returned"
    op,             \* the public operation running (or last run)
    headers,        \* token in kwargs["headers"]["Authorization"]
    attempt,        \* completed iterations of "for _ in range(2)"
    response,       \* status of the local variable response (0: none)
    sent,           \* requests sent to the target URL by this dispatch
    statuses,       \* statuses those requests received
    refreshCalls,   \* calls of _refresh_token made by this dispatch
    writes,         \* writes of token.json made by this dispatch
    dispatch,       \* "none", "running", "returned", "raised"
    cacheAtCall,    \* token.json when the operation was called
    issuedAtCall,   \* issued when the operation was called
    loaded,         \* value returned by _load_token (NoTok: it raised)
    loadRefreshCalls, \* calls of _refresh_token made by _load_token
    loadWrites,     \* writes of token.json made by _load_token
    outcome,        \* "none", "running", "returned", "raised"
    nOps,           \* public operations called so far
    args,           \* keyword arguments get_returns is called with
    url,            \* return_num and comment_num formatted into the URL
    request,        \* params, body and headers built by the operation
    respBody,       \* JSON body of the local variable response
    result,         \* value the public operation returned
    retOrder,       \* return numbers of the requests sent, in order
    refreshStatus,  \* status of the last answer of the refresh endpoint to
                    \* this operation (0: none)
    upstream,       \* "Anonymous" comments the upstream API holds: [ret, com]
    \* ---- orchestrator (src/main.py)
    mainPc,         \* position of Main.main
    returnsList,    \* returns_list["returns"]
    incomplete,     \* incomplete_returns
    idx,            \* i of _get_returns_data
    detail,         \* return_data of the current iteration
    cidx,           \* j of _get_returns_data
    dataList,       \* returns_data_list
    probed,         \* return numbers create_comment was called with
    deleted,        \* comment numbers delete_comment was called with, for detail
    simplified,     \* simplified_returns
    webhook         \* "none", "posted", "failed"

clientVars == <<cache, issued, expired, pc, op, headers, attempt, response, sent,
          statuses, refreshCalls, writes, dispatch, cacheAtCall, issuedAtCall,
          loaded, loadRefreshCalls, loadWrites, outcome, nOps, args, url,
          request, respBody, result, retOrder, refreshStatus, upstream>>

mainVars == <<mainPc, returnsList, incomplete, idx, detail, cidx, dataList,
              probed, deleted, simplified, webhook>>

vars == <<clientVars, mainVars>>

\* ------------------------------------------------------------ helpers

\* Variants of the size check with a wrong edge or no size test at all.
TokenFileValidAbove160(c) ==
    c.exists /\ c.size > TokenSizeMin /\ c.size < TokenSizeMax
TokenFileValidUpTo196(c) ==
    c.exists /\ c.size >= TokenSizeMin /\ c.size <= TokenSizeMax
TokenFileValidExistsOnly(c) == c.exists

\* os.path.exists(TOKEN_PATH) and os.path.getsize(TOKEN_PATH) in range(160, 196)
TokenFileValid(c) ==
    c.exists /\ c.size >= TokenSizeMin /\ c.size < TokenSizeMax

\* response.raise_for_status(): TRUE when it raises HTTPError.
RaiseForStatus(s) == s >= ErrorMin /\ s < ErrorMax

\* Variant of _save_token that leaves token.json as it is.
SaveTokenSkipped(c, tok, size) == c

\* _save_token: overwrite token.json with the dumped token.
SaveToken(c, tok, size) == [exists |-> TRUE, size |-> size, tok |-> tok]

\* What the refresh endpoint can answer: a token whose dump has some size, or
\* an error status.
RefreshAnswers ==
    {[status |-> t, size |-> s] :
        t \in {x \in Statuses : ~RaiseForStatus(x)}, s \in DumpSizes}
        \cup {[status |-> e, size |-> 0] : e \in {x \in Statuses : RaiseForStatus(x)}}

\* _refresh_token against answer a: the result of the call.
\*   ok: it returned (FALSE: raise_for_status raised); tok: the token returned;
\*   cache, issued: token.json and the issuer's counter afterwards.
RefreshToken(c, n, a) ==
    IF RaiseForStatus(a.status)
    THEN [ok |-> FALSE, tok |-> NoTok, cache |-> c, issued |-> n, wrote |-> 0]
    ELSE [ok |-> TRUE, tok |-> n + 1, cache |-> SaveToken(c, n + 1, a.size),
          issued |-> n + 1, wrote |-> 1]

\* Variant of the status test that returns only responses that are no error.
ReturnsResponseUnlessError(s) == ~RaiseForStatus(s)

\* "if response.status_code != 401: return response"
ReturnsResponse(s) == s # Unauthorized

\* Variant of the loop with one more iteration.
AttemptsOneMore == 2 + 1

\* "for _ in range(2)"
Attempts == 2

\* The requests call each branch of _send_request makes.
Method(o) == IF o = "delete_comment" THEN "delete" ELSE "post"
Verb(m) == CASE m = "post" -> "POST"
             [] m = "get" -> "GET"
             [] m = "delete" -> "GET"
HasBody(m) == m = "post"

\* The public operations that call response.raise_for_status() on the
\* response of _send_request.
ChecksStatus(o) == o \in {"get_returns", "create_comment"}

\* Statuses the target endpoint can answer a request carrying token t with.
Answers(t) == IF t \in expired THEN {Unauthorized} ELSE Statuses

\* Return records the endpoint can answer a comment on return ret with.  The
\* code reads "rma", "cisComments" and "entries" without comparing "rma" with
\* ret; "entries" is read only from a record whose "rma" is the code of a
\* return, so one entry count is enough for the others.
DetailRecords(ret) ==
    {DetailJson(ret, cs, n) : cs \in CommentLists, n \in EntryCounts}
        \cup {DetailJson(NoRma, cs, 1) : cs \in CommentLists}

\* JSON bodies the target endpoint can answer with: the returns list, a
\* return record, nothing for a deletion or an error.
Payloads(o, u, s) ==
    IF RaiseForStatus(s) THEN {NoJson}
    ELSE CASE o = "get_returns" -> {ReturnsJson(q) : q \in ReturnsLists}
           [] o = "create_comment" -> DetailRecords(u.ret)
           [] OTHER -> {NoJson}

\* The "Anonymous" comments of the record answered for return ret, as
\* [ret, com].
SentinelsOf(b, ret) ==
    {[ret |-> ret, com |-> b.comments[j].code] :
        j \in {i \in 1..Len(b.comments) : b.comments[i].author = Sentinel}}

\* What the upstream API holds after it served a request with status s and
\* body b: a comment POST that succeeded created the comment the answer
\* shows, a DELETE that succeeded removed the comment of the URL, and any
\* other request, a GET among them, changed nothing.
Serve(held, verb, o, u, s, b) ==
    IF s < 200 \/ s >= 300 THEN held
    ELSE IF verb = "POST" /\ o = "create_comment" THEN held \cup SentinelsOf(b, u.ret)
    ELSE IF verb = "DELETE" THEN held \ {[ret |-> u.ret, com |-> u.com]}
    ELSE held

\* A dict without keys.
EmptyDict == [k \in {} |-> NoneVal]

\* Variant of the builders that drops every falsy value ("if v").
BuildParamsDropFalsy(kw) ==
    [k \in {x \in DOMAIN kw : kw[x] \notin {NoneVal, "0"}} |-> kw[k]]

\* {k: v for k, v in kwargs.items() if v is not None}
BuildHeaders(kw) == [k \in {x \in DOMAIN kw : kw[x] # NoneVal} |-> kw[k]]
BuildParams(kw) == [k \in {x \in DOMAIN kw : kw[x] # NoneVal} |-> kw[k]]
BuildBody(kw) == [k \in {x \in DOMAIN kw : kw[x] # NoneVal} |-> kw[k]]

\* The keyword arguments each public operation hands to the builders.
ParamsKwargs(o, a) ==
    IF o = "get_returns"
    THEN [fields |-> a.fields, sort |-> a.sort, pageSize |-> a.page_size,
          currentPage |-> a.current_page]
    ELSE EmptyDict
BodyKwargs(o, a) ==
    CASE o = "get_returns" ->
            [county |-> a.country, channel |-> a.channel,
             dateFrom |-> a.date_from, dateTo |-> a.date_to]
      [] o = "create_comment" -> [comment |-> "v"]
      [] OTHER -> EmptyDict
HeadersKwargs(o, a) ==
    IF o = "get_returns"
    THEN [Authorization |-> "v", Content_Type |-> a.content_type]
    ELSE [Authorization |-> "v"]

\* params and body as the operation builds them before _load_token (params
\* is the literal {} in create_comment and delete_comment, and
\* delete_comment passes no body); headers once the token is loaded.
RequestOf(o, a, loadedOk) ==
    [params |-> IF o = "get_returns" THEN BuildParams(ParamsKwargs(o, a))
                ELSE EmptyDict,
     body |-> IF o = "delete_comment" THEN EmptyDict
              ELSE BuildBody(BodyKwargs(o, a)),
     headers |-> IF loadedOk THEN BuildHeaders(HeadersKwargs(o, a))
                 ELSE EmptyDict]

\* "return response.json()" of get_returns and create_comment; delete_comment
\* returns None.
ReturnValue(o, body) ==
    IF o \in {"get_returns", "create_comment"} THEN body ELSE NoJson

\* Variant of the retry that keeps the Authorization header of the first
\* attempt.
RetryAuthorizationOld(old, new) == old

\* kwargs["headers"]["Authorization"] = f"{new_token['token_type']} ..."
RetryAuthorization(old, new) == new

\* ------------------------------------------------------------ initial state

\* The orchestrator before Main.main runs.
MainIdle ==
    /\ mainPc = "start"
    /\ returnsList = <<>>
    /\ incomplete = <<>>
    /\ idx = 0
    /\ detail = NoJson
    /\ cidx = 0
    /\ dataList = <<>>
    /\ probed = <<>>
    /\ deleted = <<>>
    /\ simplified = <<>>
    /\ webhook = "none"

\* The client before any call.
ClientIdle ==
    /\ issued = 0
    /\ pc = "idle"
    /\ op = "none"
    /\ headers = NoTok
    /\ attempt = 0
    /\ response = 0
    /\ sent = <<>>
    /\ statuses = <<>>
    /\ refreshCalls = 0
    /\ writes = 0
    /\ dispatch = "none"
    /\ cacheAtCall = cache
    /\ issuedAtCall = 0
    /\ loaded = NoTok
    /\ loadRefreshCalls = 0
    /\ loadWrites = 0
    /\ outcome = "none"
    /\ nOps = 0
    /\ url = NoUrlArgs
    /\ request = [params |-> EmptyDict, body |-> EmptyDict, headers |-> EmptyDict]
    /\ respBody = NoJson
    /\ result = NoJson
    /\ retOrder = <<>>
    /\ refreshStatus = 0
    /\ upstream = {}

\* token.json is missing or was left by an earlier run, with any size and a
\* token that may have expired since.
Init ==
    /\ cache \in {MissingFile}
                   \cup {[exists |-> TRUE, size |-> s, tok |-> OldTok] : s \in Sizes}
    /\ expired \in {{}, {OldTok}}
    /\ args = MainArgs
    /\ ClientIdle
    /\ MainIdle

\* A well-sized token.json, and get_returns called with any arguments.
InitBuild ==
    /\ cache = [exists |-> TRUE, size |-> TokenSizeMin, tok |-> OldTok]
    /\ expired = {}
    /\ args \in [ArgNames -> ArgValues]
    /\ ClientIdle
    /\ MainIdle

\* ------------------------------------------------------------ actions

\* A public operation is called: it builds url, params and body, calls
\* _load_token and builds the headers from the token it returns.
\* _load_token returns the file's content when the file passes the size
\* check, and the result of _refresh_token otherwise.
Invoke(o, u) ==
    /\ pc = "idle"
    /\ op' = o
    /\ url' = u
    /\ respBody' = NoJson
    /\ result' = NoJson
    /\ UNCHANGED <<args, retOrder, upstream>>
    /\ nOps' = nOps + 1
    /\ cacheAtCall' = cache
    /\ issuedAtCall' = issued
    /\ attempt' = 0
    /\ response' = 0
    /\ sent' = <<>>
    /\ statuses' = <<>>
    /\ refreshCalls' = 0
    /\ writes' = 0
    /\ UNCHANGED expired
    /\ IF TokenFileValid(cache)
       THEN /\ loaded' = cache.tok
            /\ request' = RequestOf(o, args, TRUE)
            /\ refreshStatus' = 0
            /\ headers' = cache.tok
            /\ loadRefreshCalls' = 0
            /\ loadWrites' = 0
            /\ pc' = "send"
            /\ dispatch' = "running"
            /\ outcome' = "running"
            /\ UNCHANGED <<cache, issued>>
       ELSE \E a \in RefreshAnswers :
              LET r == RefreshToken(cache, issued, a) IN
              /\ cache' = r.cache
              /\ issued' = r.issued
              /\ loaded' = r.tok
              /\ headers' = r.tok
              /\ loadRefreshCalls' = 1
              /\ loadWrites' = r.wrote
              /\ request' = RequestOf(o, args, r.ok)
              /\ refreshStatus' = a.status
              /\ IF r.ok
                 THEN /\ pc' = "send"
                      /\ dispatch' = "running"
                      /\ outcome' = "running"
                 ELSE /\ pc' = "idle"
                      /\ dispatch' = "none"
                      /\ outcome' = "raised"

\* A caller other than Main.main calls a public operation.
Call(o) ==
    /\ nOps < MaxOps
    /\ Invoke(o, IF o = "get_returns" THEN NoUrlArgs
                 ELSE IF o = "create_comment" THEN [ret |-> 1, com |-> 0]
                 ELSE [ret |-> 1, com |-> 1])

\* One iteration of the loop up to the status test: send the request with the
\* current headers and receive a status.
SendAttempt ==
    /\ pc = "send"
    /\ \E s \in Answers(headers) : \E b \in Payloads(op, url, s) :
         /\ sent' = Append(sent, [verb |-> Verb(Method(op)), auth |-> headers,
                                  body |-> HasBody(Method(op)), target |-> op])
         /\ statuses' = Append(statuses, s)
         /\ response' = s
         /\ respBody' = b
         /\ upstream' = Serve(upstream, Verb(Method(op)), op, url, s, b)
         /\ IF ReturnsResponse(s)
            THEN pc' = "returned" /\ dispatch' = "returned"
            ELSE pc' = "refresh" /\ dispatch' = "running"
    /\ retOrder' = IF url.ret = 0
                       \/ (retOrder # <<>> /\ retOrder[Len(retOrder)] = url.ret)
                    THEN retOrder ELSE Append(retOrder, url.ret)
    /\ UNCHANGED <<cache, issued, expired, op, headers, attempt, refreshCalls,
                   writes, cacheAtCall, issuedAtCall, loaded, loadRefreshCalls,
                   loadWrites, outcome, nOps, args, url, request, result,
                   refreshStatus>>

\* Variant of the 401 branch that goes round the loop without calling
\* _refresh_token.
RetryWithoutRefresh ==
    /\ pc = "refresh"
    /\ attempt' = attempt + 1
    /\ IF attempt + 1 < Attempts
       THEN pc' = "send" /\ dispatch' = "running"
       ELSE pc' = "returned" /\ dispatch' = "returned"
    /\ UNCHANGED <<cache, issued, expired, op, headers, response, sent,
                   statuses, refreshCalls, writes, cacheAtCall, issuedAtCall,
                   loaded, loadRefreshCalls, loadWrites, outcome, nOps, args,
                   url, request, respBody, result, retOrder, refreshStatus,
                   upstream>>

\* The rest of the iteration after a 401: call _refresh_token, put the new
\* token in the Authorization header, and go round the loop; after the last
\* iteration fall through to "return response".
RefreshAfter401 ==
    /\ pc = "refresh"
    /\ \E a \in RefreshAnswers :
         LET r == RefreshToken(cache, issued, a) IN
         /\ cache' = r.cache
         /\ issued' = r.issued
         /\ refreshCalls' = refreshCalls + 1
         /\ writes' = writes + r.wrote
         /\ refreshStatus' = a.status
         /\ IF r.ok
            THEN /\ headers' = RetryAuthorization(headers, r.tok)
                 /\ attempt' = attempt + 1
                 /\ IF attempt + 1 < Attempts
                    THEN pc' = "send" /\ dispatch' = "running"
                    ELSE pc' = "returned" /\ dispatch' = "returned"
                 /\ UNCHANGED outcome
            ELSE /\ pc' = "idle"
                 /\ dispatch' = "raised"
                 /\ outcome' = "raised"
                 /\ UNCHANGED <<headers, attempt>>
    /\ UNCHANGED <<expired, op, response, sent, statuses, cacheAtCall,
                   issuedAtCall, loaded, loadRefreshCalls, loadWrites, nOps,
                   args, url, request, respBody, result, retOrder, upstream>>

\* _send_request has returned response to the public operation, which calls
\* raise_for_status on it (get_returns, create_comment) or drops it
\* (delete_comment), and returns.
Finish ==
    /\ pc = "returned"
    /\ pc' = "idle"
    /\ outcome' = IF ChecksStatus(op) /\ RaiseForStatus(response)
                  THEN "raised" ELSE "returned"
    /\ result' = IF ChecksStatus(op) /\ RaiseForStatus(response)
                 THEN NoJson ELSE ReturnValue(op, respBody)
    /\ UNCHANGED <<refreshStatus, cache, issued, expired, op, headers, attempt, response, sent,
                   statuses, refreshCalls, writes, dispatch, cacheAtCall,
                   issuedAtCall, loaded, loadRefreshCalls, loadWrites, nOps,
                   args, url, request, respBody, retOrder, upstream>>

\* The client driven by any caller.
Next ==
    \/ \E o \in Ops : Call(o) /\ UNCHANGED mainVars
    \/ SendAttempt /\ UNCHANGED mainVars
    \/ RefreshAfter401 /\ UNCHANGED mainVars
    \/ Finish /\ UNCHANGED mainVars

Spec == Init /\ [][Next]_vars

\* ------------------------------------------------------------ orchestrator

Range(q) == {q[i] : i \in 1..Len(q)}

\* Variant of the filter that keeps every return.
SearchAllReturns(rs) == [i \in 1..Len(rs) |-> rs[i].code]

\* _search_incomplete_returns: the codes of the returns whose statusDisplay is
\* the pending-approval label, in list order.
SearchIncompleteReturns(rs) ==
    LET pend == SelectSeq(rs, LAMBDA r : r.statusDisplay = PendingLabel)
    IN  [i \in 1..Len(pend) |-> pend[i].code]

\* Variant of the loop that walks incomplete_returns backwards.
ProbeTargetReversed(inc, i) == inc[Len(inc) - i + 1]

\* incomplete_returns[i] of the i-th iteration (i from 1 here).
ProbeTarget(inc, i) == inc[i]

\* Variant of the author test that takes every comment for a sentinel.
IsSentinelAlways(c) == TRUE

\* comment["author"]["name"] == "Anonymous"
IsSentinel(c) == c.author = Sentinel

\* The inner loop of _simplify_returns_list for one return.  raised: a
\* matching record has no item in "entries", and entries[0] raises IndexError.
\* src: the index in returns_data of the record the detail fields are left
\* assigned from.  A matching record assigns them (the last match stands);
\* without a match they keep what an earlier return assigned (src; 0: never
\* assigned).
DetailSource(data, code, src) ==
    LET matches == {k \in 1..Len(data) : data[k].rma = code}
    IN  IF \E k \in matches : data[k].entries = 0
        THEN [raised |-> TRUE, src |-> src]
        ELSE [raised |-> FALSE,
              src |-> IF matches = {} THEN src
                      ELSE CHOOSE k \in matches : \A m \in matches : m <= k]

\* The outer loop of _simplify_returns_list from item i on.  ok: FALSE when
\* the inner loop raises IndexError, or when building a record reads a detail
\* field that was never assigned (UnboundLocalError).  Each record is [code, source], source the index in
\* returns_data of the record its detail fields come from.
RECURSIVE SimplifyFrom(_, _, _, _, _, _)
SimplifyFrom(rs, inc, data, i, src, out) ==
    IF i > Len(rs) THEN [ok |-> TRUE, out |-> out]
    ELSE IF rs[i].code \notin Range(inc)
         THEN SimplifyFrom(rs, inc, data, i + 1, src, out)
         ELSE LET now == DetailSource(data, rs[i].code, src)
              IN  IF now.raised \/ now.src = 0 THEN [ok |-> FALSE, out |-> out]
                  ELSE SimplifyFrom(rs, inc, data, i + 1, now.src,
                           Append(out, [code |-> rs[i].code, source |-> now.src]))

SimplifyReturnsList(rs, inc, data) == SimplifyFrom(rs, inc, data, 1, 0, <<>>)

\* The client operation the orchestrator waits for has ended.
ClientEnded == pc = "idle" /\ outcome \in {"returned", "raised"}

\* Main.main up to the call of get_returns.
MainStart ==
    /\ mainPc = "start"
    /\ Invoke("get_returns", NoUrlArgs)
    /\ mainPc' = "list"
    /\ UNCHANGED <<returnsList, incomplete, idx, detail, cidx, dataList,
                   probed, deleted, simplified, webhook>>

\* get_returns has ended: an exception ends the run; otherwise
\* _search_incomplete_returns runs, and _simplify_returns_list enters
\* _get_returns_data.
MainAfterList ==
    /\ mainPc = "list"
    /\ ClientEnded
    /\ IF outcome = "raised"
       THEN /\ mainPc' = "aborted"
            /\ UNCHANGED <<returnsList, incomplete, idx>>
       ELSE /\ returnsList' = result.returns
            /\ incomplete' = SearchIncompleteReturns(result.returns)
            /\ idx' = 1
            /\ mainPc' = "probe"
    /\ UNCHANGED <<clientVars, detail, cidx, dataList, probed, deleted,
                   simplified, webhook>>

\* One iteration of the outer loop of _get_returns_data begins: create_comment
\* is called for the next incomplete return.
MainProbe ==
    /\ mainPc = "probe"
    /\ idx <= Len(incomplete)
    /\ Invoke("create_comment", [ret |-> ProbeTarget(incomplete, idx), com |-> 0])
    /\ probed' = Append(probed, ProbeTarget(incomplete, idx))
    /\ mainPc' = "created"
    /\ UNCHANGED <<returnsList, incomplete, idx, detail, cidx, dataList,
                   deleted, simplified, webhook>>

\* create_comment has ended: an exception ends the run; otherwise the scan of
\* the comments of the record it returned begins.
MainAfterCreate ==
    /\ mainPc = "created"
    /\ ClientEnded
    /\ IF outcome = "raised"
       THEN /\ mainPc' = "aborted"
            /\ UNCHANGED <<detail, cidx, deleted>>
       ELSE /\ detail' = result
            /\ cidx' = 1
            /\ deleted' = <<>>
            /\ mainPc' = "scan"
    /\ UNCHANGED <<clientVars, returnsList, incomplete, idx, dataList, probed,
                   simplified, webhook>>

\* One iteration of the inner loop whose comment is not by "Anonymous", or
\* the end of the inner loop: the record is appended to returns_data_list.
MainScan ==
    /\ mainPc = "scan"
    /\ IF cidx > Len(detail.comments)
       THEN /\ dataList' = Append(dataList, detail)
            /\ idx' = idx + 1
            /\ mainPc' = "probe"
            /\ UNCHANGED cidx
       ELSE /\ ~IsSentinel(detail.comments[cidx])
            /\ cidx' = cidx + 1
            /\ UNCHANGED <<dataList, idx, mainPc>>
    /\ UNCHANGED <<clientVars, returnsList, incomplete, detail, probed, deleted,
                   simplified, webhook>>

\* One iteration of the inner loop whose comment is by "Anonymous":
\* delete_comment is called for it.
MainDelete ==
    /\ mainPc = "scan"
    /\ cidx <= Len(detail.comments)
    /\ IsSentinel(detail.comments[cidx])
    /\ Invoke("delete_comment", [ret |-> ProbeTarget(incomplete, idx),
                                  com |-> detail.comments[cidx].code])
    /\ deleted' = Append(deleted, [ret |-> ProbeTarget(incomplete, idx),
                                   com |-> detail.comments[cidx].code])
    /\ mainPc' = "deleting"
    /\ UNCHANGED <<returnsList, incomplete, idx, detail, cidx, dataList,
                   probed, simplified, webhook>>

\* delete_comment has ended: an exception ends the run; otherwise the inner
\* loop goes on.
MainAfterDelete ==
    /\ mainPc = "deleting"
    /\ ClientEnded
    /\ IF outcome = "raised"
       THEN mainPc' = "aborted" /\ UNCHANGED cidx
       ELSE mainPc' = "scan" /\ cidx' = cidx + 1
    /\ UNCHANGED <<clientVars, returnsList, incomplete, idx, detail, dataList,
                   probed, deleted, simplified, webhook>>

\* _get_returns_data has returned: the rest of _simplify_returns_list builds
\* the simplified records, or crashes on an unassigned detail field.
MainSimplify ==
    /\ mainPc = "probe"
    /\ idx > Len(incomplete)
    /\ LET r == SimplifyReturnsList(returnsList, incomplete, dataList) IN
         /\ simplified' = r.out
         /\ mainPc' = IF r.ok THEN "post" ELSE "crashed"
    /\ UNCHANGED <<clientVars, returnsList, incomplete, idx, detail, cidx,
                   dataList, probed, deleted, webhook>>

\* The webhook POST of Main.main and raise_for_status on its response.
MainPost ==
    /\ mainPc = "post"
    /\ \E s \in Statuses :
         /\ webhook' = "posted"
         /\ mainPc' = IF RaiseForStatus(s) THEN "failed" ELSE "done"
    /\ UNCHANGED <<clientVars, returnsList, incomplete, idx, detail, cidx,
                   dataList, probed, deleted, simplified>>

\* A run of Main.main: token.json missing or well-sized.  The upstream API
\* can answer 401 to any token, the one of an earlier run included.
InitMain ==
    /\ cache \in {MissingFile,
                  [exists |-> TRUE, size |-> TokenSizeMin, tok |-> OldTok]}
    /\ expired = {}
    /\ args = MainArgs
    /\ ClientIdle
    /\ MainIdle

NextMain ==
    \/ MainStart
    \/ MainAfterList
    \/ MainProbe
    \/ MainAfterCreate
    \/ MainScan
    \/ MainDelete
    \/ MainAfterDelete
    \/ MainSimplify
    \/ MainPost
    \/ SendAttempt /\ UNCHANGED mainVars
    \/ RefreshAfter401 /\ UNCHANGED mainVars
    \/ Finish /\ UNCHANGED mainVars

SpecMain == InitMain /\ [][NextMain]_vars

\* The request construction of the public operations alone.
NextBuild == \E o \in Ops : Call(o) /\ UNCHANGED mainVars

SpecBuild == InitBuild /\ [][NextBuild]_vars

\* ------------------------------------------------------------ properties

\* s is a 2xx status.
Success(s) == s \in 200..299
\* An operation has been called (the trackers describe it).
Called == outcome # "none"
\* The size test of the claims, written out: the file exists and has 160..195 bytes.
InRange(c) == c.exists /\ c.size \in 160..195
\* The dispatch has ended, by a return or by an exception.
DispatchEnded == dispatch \in {"returned", "raised"}
\* C1: when the first attempt of a dispatch receives 401 and the second
\* receives 200, the dispatch returns the 200 response and made exactly one
\* _refresh_token call.
C1_RetryAfter401Returns200 ==
    statuses = <<401, 200>> =>
        /\ dispatch = "returned"
        /\ response = 200
        /\ refreshCalls = 1
        /\ Len(sent) = 2

C1_Witness ==
    statuses = <<401, 200>> /\ dispatch = "returned" /\ pc = "returned"

\* C2: a dispatch sends at most two requests to the target URL, and a second
\* one only after the first received 401.
C2_AtMostTwoAttempts ==
    /\ Len(sent) <= 2
    /\ Len(statuses) = Len(sent)
    /\ Len(sent) = 2 => statuses[1] = 401

C2_Witness ==
    Len(sent) = 2 /\ statuses = <<401, 401>> /\ dispatch = "returned"

\* C3: when both attempts of a dispatch receive 401, the dispatch ends by
\* returning the second 401 response, whatever the refresh endpoint answers
\* after the second attempt.
C3_Second401Returned ==
    (statuses = <<401, 401>> /\ DispatchEnded) =>
        (dispatch = "returned" /\ response = 401)

\* C4: a single dispatch calls _refresh_token at most once.
C4_AtMostOneRefresh == refreshCalls <= 1

\* C5: if the first response of a dispatch is not 401, the dispatch returns it
\* at once: no second request, no _refresh_token call, no write of token.json.
C5_Non401ReturnedImmediately ==
    (Len(statuses) >= 1 /\ statuses[1] # 401) =>
        /\ dispatch = "returned"
        /\ response = statuses[1]
        /\ Len(sent) = 1
        /\ refreshCalls = 0
        /\ writes = 0
        /\ cache.tok = loaded

C5_Witness ==
    statuses = <<500>> /\ dispatch = "returned" /\ pc = "returned"
        /\ cache.tok = OldTok

\* C6: if token.json exists with a size in [160,196), _load_token returns its
\* content, calls no refresh and writes nothing.
C6_ValidCacheLoaded ==
    (Called /\ InRange(cacheAtCall)) =>
        /\ loaded = cacheAtCall.tok
        /\ loadRefreshCalls = 0
        /\ loadWrites = 0
        /\ Len(sent) = 0 => cache = cacheAtCall

C6_Witness ==
    /\ pc = "send" /\ Len(sent) = 0
    /\ cacheAtCall.exists /\ cacheAtCall.size = 195
    /\ loaded = OldTok /\ cache = cacheAtCall

\* C7: if token.json is missing or its size is outside [160,196), _load_token
\* makes exactly one refresh call and returns the token that call issued (when
\* the refresh endpoint issues none, the call raises and so does _load_token).
C7_InvalidCacheRefreshedOnce ==
    (Called /\ ~InRange(cacheAtCall)) =>
        /\ loadRefreshCalls = 1
        /\ loaded # NoTok => (loaded = issuedAtCall + 1 /\ loadWrites = 1)
        /\ loaded = NoTok => (outcome = "raised" /\ dispatch = "none"
                                /\ cache = cacheAtCall /\ loadWrites = 0)
        /\ (pc = "send" /\ Len(sent) = 0) => (cache.tok = loaded /\ headers = loaded)

C7_Witness ==
    /\ pc = "send" /\ Len(sent) = 0
    /\ cacheAtCall.exists /\ cacheAtCall.size = 196
    /\ loadRefreshCalls = 1 /\ loaded = issuedAtCall + 1 /\ cache.tok = loaded

\* C8: once a refresh has succeeded, token.json holds the token most recently
\* issued by the refresh endpoint.
C8_CacheHoldsLatestToken ==
    issued > 0 => (cache.exists /\ cache.tok = issued)

C8_Witness ==
    issued >= 2 /\ cache.tok = issued /\ nOps >= 2 /\ pc = "idle"

\* C9 as stated: no request is sent with credentials taken from a stale,
\* missing or corrupt token.json; such a file is replaced by a freshly issued
\* token before its content is put in an Authorization header.
C9_NoStaleCredentialsSent ==
    (Called /\ (~InRange(cacheAtCall) \/ cacheAtCall.tok \in expired)) =>
        \A i \in 1..Len(sent) : sent[i].auth > issuedAtCall

\* C9 amended: no request is sent with credentials taken from a token.json
\* that is missing or whose size is outside [160,196); such a file is replaced
\* by a freshly issued token before any request is sent.
C9_InvalidCacheReplacedBeforeUse ==
    (Called /\ ~InRange(cacheAtCall)) =>
        \A i \in 1..Len(sent) :
            /\ sent[i].auth > issuedAtCall
            /\ sent[i].auth \notin expired
            /\ cache.tok > issuedAtCall

C9_Witness ==
    /\ ~cacheAtCall.exists
    /\ Len(sent) >= 1 /\ sent[1].auth = issuedAtCall + 1
    /\ op = "get_returns"

\* C10: delete_comment raises whenever the response its dispatch returned is
\* not 2xx.
C10_DeleteCommentRaises ==
    (op = "delete_comment" /\ pc = "idle" /\ dispatch = "returned"
        /\ ~Success(response)) => outcome = "raised"

\* C11: get_returns returns the upstream JSON unmodified when the response its
\* dispatch ended with is 2xx, and raises when it is not 2xx, a 401 that
\* persists after the retry included.
C11_GetReturnsJsonOrRaise ==
    (op = "get_returns" /\ pc = "idle" /\ Called) =>
        /\ (dispatch = "returned" /\ Success(response)) =>
              (outcome = "returned" /\ result = respBody /\ result.kind = "returns")
        /\ (dispatch = "returned" /\ ~Success(response)) =>
              (outcome = "raised" /\ result = NoJson)
        /\ statuses = <<401, 401>> => outcome = "raised"

\* C12: every request delete_comment sends, first attempt and retry, uses the
\* HTTP method DELETE and carries no body.
C12_DeleteCommentSendsDelete ==
    \A i \in 1..Len(sent) :
        sent[i].target = "delete_comment" =>
            (sent[i].verb = "DELETE" /\ ~sent[i].body)

\* C20: the retry after a 401 carries the token the refresh just returned, not
\* the token of the first attempt.
C20_RetryCarriesNewToken ==
    Len(sent) >= 2 =>
        /\ sent[2].auth = issuedAtCall + loadWrites + 1
        /\ sent[2].auth # sent[1].auth
        /\ sent[1].auth = loaded

C20_Witness ==
    /\ Len(sent) = 2 /\ sent[1].auth = OldTok /\ sent[2].auth = 1
    /\ statuses = <<401, 200>>

\* The argument of get_returns each key of the specified body and query
\* carries.
SpecBodyKeys == [countryIsoCode |-> "country", channel |-> "channel",
                 dateFrom |-> "date_from", dateTo |-> "date_to"]
SpecQueryKeys == [fields |-> "fields", sort |-> "sort", pageSize |-> "page_size",
                  currentPage |-> "current_page"]
Present(keys) == {k \in DOMAIN keys : args[keys[k]] # NoneVal}

\* C18: the body get_returns sends has exactly the keys countryIsoCode,
\* channel, dateFrom, dateTo, and its query the keys fields, sort, pageSize,
\* currentPage, minus those whose value is None.
C18_GetReturnsKeys ==
    (op = "get_returns" /\ Called) =>
        /\ DOMAIN request.body = Present(SpecBodyKeys)
        /\ DOMAIN request.params = Present(SpecQueryKeys)

\* out holds exactly the entries of kw whose value is not None.
ExactlyNotNone(kw, out) ==
    /\ DOMAIN out \subseteq DOMAIN kw
    /\ \A k \in DOMAIN kw :
          IF kw[k] = NoneVal THEN k \notin DOMAIN out
          ELSE k \in DOMAIN out /\ out[k] = kw[k]

\* C19: the query, body and header builders return exactly the entries whose
\* value is not None: None values are dropped, the others kept unchanged, no
\* key or default added.
C19_BuildersDropOnlyNone ==
    Called =>
        /\ op = "get_returns" =>
              ExactlyNotNone(ParamsKwargs(op, args), request.params)
        /\ op # "delete_comment" =>
              ExactlyNotNone(BodyKwargs(op, args), request.body)
        /\ ExactlyNotNone(HeadersKwargs(op, args), request.headers)

C19_Witness ==
    /\ op = "get_returns" /\ pc = "send"
    /\ args.sort = NoneVal /\ args.current_page = "0" /\ args.fields = "v"
    /\ args.page_size = NoneVal
    /\ DOMAIN request.params = {"fields", "currentPage"}
    /\ request.params.currentPage = "0"

\* q is a prefix of r.
IsPrefix(q, r) == Len(q) <= Len(r) /\ \A k \in 1..Len(q) : q[k] = r[k]
\* The returns list has been fetched and filtered.
Listed == mainPc \notin {"start", "list", "aborted"} \/ Len(probed) > 0
\* _get_returns_data has returned.
ProbesDone == mainPc \in {"post", "done", "failed", "crashed"}
\* Position of the return with code c in the returns list.
PositionOf(c) == CHOOSE i \in 1..Len(returnsList) : returnsList[i].code = c

\* C13: if a client operation of a run ended in a non-2xx response (list,
\* create, delete, or a token refresh inside them), the batch is aborted and
\* the webhook POST is never issued: the step of Main.main that follows such
\* an operation is the end of the run.
C13_NoWebhookAfterFailure ==
    [][(/\ mainPc \in {"list", "created", "deleting"}
        /\ ClientEnded
        /\ \/ outcome = "raised"
           \/ (dispatch = "returned" /\ ~Success(response))
           \/ (refreshStatus # 0 /\ ~Success(refreshStatus)))
       => mainPc' = "aborted"]_vars

\* C14: incomplete_returns is exactly the codes of the returns whose
\* statusDisplay is the pending-approval label, in list order, and
\* create_comment is called for a return code if and only if it is in it.
C14_ProbesExactlyPending ==
    Listed =>
        /\ \A c \in 1..MaxReturns :
              c \in Range(incomplete) <=>
                 \E i \in 1..Len(returnsList) :
                    /\ returnsList[i].code = c
                    /\ returnsList[i].statusDisplay = PendingLabel
        /\ Injective(incomplete)
        /\ \A p, q \in 1..Len(incomplete) :
              p < q => PositionOf(incomplete[p]) < PositionOf(incomplete[q])
        /\ IsPrefix(probed, incomplete)
        /\ ProbesDone => probed = incomplete

C14_Witness ==
    /\ ProbesDone
    /\ Len(returnsList) = 2
    /\ returnsList[1].statusDisplay = PendingLabel
    /\ returnsList[2].statusDisplay = "Approved"
    /\ probed = <<returnsList[1].code>>

\* The scan of the comments of detail has run to its end.
ScanDone == detail.kind = "detail" /\ mainPc \in {"probe", "created", "post", "done", "failed", "crashed"}
\* The comments of detail by "Anonymous".
SentinelComments ==
    {k \in 1..Len(detail.comments) : detail.comments[k].author = "Anonymous"}

\* The return the probe that answered detail was called for.
DetailReturn ==
    IF mainPc = "created" \/ (mainPc = "aborted" /\ op = "create_comment")
    THEN probed[Len(probed) - 1]
    ELSE probed[Len(probed)]

\* C15: for a detail record returned by the probe, delete_comment is called
\* exactly once for each comment by "Anonymous", with that comment's code and
\* the probed return's code, and never for a comment by another author.
C15_DeletesExactlySentinels ==
    detail.kind = "detail" =>
        /\ \A k \in 1..Len(deleted) :
              /\ \E j \in SentinelComments : detail.comments[j].code = deleted[k].com
              /\ deleted[k].ret = DetailReturn
        /\ Injective(deleted)
        /\ ScanDone =>
              \A j \in SentinelComments :
                 \E k \in 1..Len(deleted) : deleted[k].com = detail.comments[j].code

C15_Witness ==
    /\ ScanDone /\ mainPc = "probe"
    /\ Len(detail.comments) = 2
    /\ detail.comments[1].author = "Anonymous"
    /\ detail.comments[2].author = "Bob"
    /\ deleted = <<[ret |-> probed[Len(probed)], com |-> detail.comments[1].code]>>

\* C16: the requests for the N-th incomplete return are all issued and
\* answered before any request for the (N+1)-th, and the returns are probed in
\* the order of incomplete_returns.
C16_ReturnsProbedInOrder ==
    /\ IsPrefix(retOrder, incomplete)
    /\ IsPrefix(probed, incomplete)
    /\ Len(retOrder) <= Len(probed)
    /\ pc \in {"send", "refresh", "returned"} =>
          (url.ret = 0 \/ url.ret = probed[Len(probed)])

C16_Witness ==
    /\ Len(incomplete) = 2 /\ retOrder = incomplete
    /\ incomplete[1] = 2
    /\ op = "delete_comment" /\ pc = "idle" /\ outcome = "returned"

\* C17: each simplified record's detail fields come from the detail record
\* whose rma equals the record's return code, never from another return's.
C17_DetailFieldsFromMatchingRma ==
    \A k \in 1..Len(simplified) :
        dataList[simplified[k].source].rma = simplified[k].code

\* A step in which _refresh_token is called, from _load_token or from the 401
\* branch of _send_request.
RefreshStep ==
    \/ (pc = "refresh" /\ refreshCalls' = refreshCalls + 1)
    \/ (pc = "idle" /\ nOps' = nOps + 1 /\ loadRefreshCalls' = 1)

\* C21: token.json is written only by a successful refresh.  A step changes
\* the file only when it is a refresh the endpoint answered with a new token,
\* and the file then holds that token; a refresh the endpoint answered with a
\* status that is not 2xx raises and leaves the file as it was.
C21_CacheWrittenOnlyByRefresh ==
    [][/\ cache' # cache =>
             (RefreshStep /\ Success(refreshStatus') /\ cache'.tok = issued')
       /\ (RefreshStep /\ ~Success(refreshStatus')) =>
             (cache' = cache /\ outcome' = "raised" /\ pc' = "idle")]_vars

\* C22: when a run reaches the webhook delivery, the upstream API holds none
\* of the "Anonymous" comments the probes of the run created.
C22_NoProbeCommentRemains ==
    webhook = "posted" => upstream = {}

====
